---- MODULE Spec2Model ----
(***************************************************************************)
(* Model of the reactive, file-backed configuration store (class Config,   *)
(* src/src/index.ts lines 120-411) together with the file it owns, the     *)
(* chokidar watcher it installs and the processes that edit the file from  *)
(* outside.                                                                *)
(*                                                                         *)
(* A JSON value is a tree, kept as a function from paths (sequences of     *)
(* property keys) to node codes: a scalar is its own code (a natural       *)
(* number), OBJ and ARR mark containers.  A text is what is on disk or in  *)
(* #configCache: the tree it spells, the places that carry a comment and   *)
(* whether it is pretty-printed, or a text that does not parse.            *)
(*                                                                         *)
(* Every async method is cut at its awaits: one action is the completion   *)
(* of the awaited file operation followed by the synchronous code up to    *)
(* the next await.                                                         *)
(***************************************************************************)
EXTENDS Integers, Sequences, FiniteSets, Bags, TLC

\* ------------------------------------------------------------------ bounds
MaxClock == 2       \* latest modification time a write of the store may get
MaxTasks == 2       \* load()/save() calls in flight at once
MaxOps == 2         \* calls by the owner and edits by other processes
MaxSubs == 2        \* substitution values handed to translate
MaxLen == 3         \* characters of a text whose offsets are located
MaxReloads == 3     \* reloadLanguage calls followed in one reloadAllLanguages
MaxSends == 2       \* sends of one form

\* ------------------------------------------------------------- JSON values
OBJ == 0 - 1
ARR == 0 - 2
NULL == 0 - 3
NOTEXT == 0 - 9

IsPrefix(p, q) == Len(p) <= Len(q) /\ SubSeq(q, 1, Len(p)) = p
Strip(p, q) == SubSeq(q, Len(p) + 1, Len(q))

Scalar(n) == (<< >> :> n)
EmptyObj == (<< >> :> OBJ)

\* the value stored under path p of tree t (p must be a node of t)
Sub(t, p) ==
    LET below == {q \in DOMAIN t : IsPrefix(p, q)}
    IN  [r \in {Strip(p, q) : q \in below} |-> t[p \o r]]

\* tree t without the node at p and everything under it
Prune(t, p) == [q \in {q \in DOMAIN t : ~IsPrefix(p, q)} |-> t[q]]

\* tree t with value v stored at p (replacing what was there)
Graft(t, p, v) ==
    LET base == Prune(t, p)
    IN  [q \in (DOMAIN base) \cup {p \o r : r \in DOMAIN v} |->
            IF IsPrefix(p, q) THEN v[Strip(p, q)] ELSE base[q]]

\* the own property keys of the container at the root of t
TopKeys(t) == {q[1] : q \in {q \in DOMAIN t : Len(q) = 1}}

\* object with one member
Obj1(k, v) == Graft(EmptyObj, <<k>>, v)
\* object with two members
Obj2(k1, v1, k2, v2) == Graft(Obj1(k1, v1), <<k2>>, v2)
\* array with one element
Arr1(v) == Graft((<< >> :> ARR), <<"0">>, v)

\* ------------------------------------------------------------------- texts
\* A text that parses: the tree it spells, the paths whose member carries a
\* comment next to it, and whether the layout is the pretty-printed one.
Json(tree, cm, fmt) == [k |-> "json", tree |-> tree, cm |-> cm, fmt |-> fmt]
\* a text with a syntax error
BadText == [k |-> "bad", tree |-> Scalar(NOTEXT), cm |-> {}, fmt |-> FALSE]
\* the zero-length text of a file made by fs.ensureFile
EmptyText == [k |-> "empty", tree |-> Scalar(NOTEXT), cm |-> {}, fmt |-> FALSE]

\* JSON.stringify(value): compact, no comments
Stringify(v) == Json(v, {}, FALSE)

\* jsonc.parse(text, errs, {allowEmptyContent: false}): the errors flag and
\* the value; comments and layout are dropped
Parse(text) ==
    IF text.k = "json" THEN [errs |-> FALSE, data |-> text.tree]
    ELSE [errs |-> TRUE, data |-> Scalar(NOTEXT)]

\* a formatter that lays out a formatted text differently again
FormatToggling(text) ==
    IF text.k = "json" THEN [text EXCEPT !.fmt = ~text.fmt] ELSE text

\* jsonc.format + jsonc.applyEdits: only white space changes
Format(text) == IF text.k = "json" THEN [text EXCEPT !.fmt = TRUE] ELSE text

\* getKey(target, key): a numeric segment for an index of an array, a string
\* segment otherwise
IndexKeys == {"0", "1", "2"}
getKey(targetKind, key) ==
    IF targetKind = ARR /\ key \in IndexKeys
    THEN [key |-> key, num |-> TRUE]
    ELSE [key |-> key, num |-> FALSE]

KeysOf(tp) == [i \in 1..Len(tp) |-> tp[i].key]

\* the segment kind a container node accepts
SegFits(kind, seg) == (kind = OBJ /\ ~seg.num) \/ (kind = ARR /\ seg.num)

\* jsonc.findNodeAtLocation(root, tp) finds a node
Found(tree, tp) ==
    \A i \in 1..Len(tp) :
        /\ KeysOf(SubSeq(tp, 1, i - 1)) \in DOMAIN tree
        /\ SegFits(tree[KeysOf(SubSeq(tp, 1, i - 1))], tp[i])
        /\ KeysOf(SubSeq(tp, 1, i)) \in DOMAIN tree

\* setProperty's loop: the longest proper prefix of tp that is a node
ParentLen(tree, tp) ==
    CHOOSE j \in 0..(Len(tp) - 1) :
        /\ Found(tree, SubSeq(tp, 1, j))
        /\ \A i \in (j + 1)..(Len(tp) - 1) : ~Found(tree, SubSeq(tp, 1, i))

\* the value wrapped once per segment that had no node: {seg: value} for a
\* string segment, [value] for a numeric one
RECURSIVE Wrap(_, _)
Wrap(v, segs) ==
    IF segs = << >> THEN v
    ELSE LET inner == Wrap(v, Tail(segs))
         IN  IF Head(segs).num THEN Arr1(inner) ELSE Obj1(Head(segs).key, inner)

\* number of elements of the array node at p
ArrLen(tree, p) == Cardinality({q \in DOMAIN tree : Len(q) = Len(p) + 1 /\ IsPrefix(p, q)})
IndexName(n) == IF n = 0 THEN "0" ELSE IF n = 1 THEN "1" ELSE "2"
IndexOf(key) == IF key = "0" THEN 0 ELSE IF key = "1" THEN 1 ELSE 2

\* jsonc.modify throws "Can not add ... to parent of type ..."
ModifyThrows(text, tp) ==
    LET j == ParentLen(text.tree, tp)
        parent == KeysOf(SubSeq(tp, 1, j))
    IN  ~SegFits(text.tree[parent], tp[j + 1])

\* jsonc.applyEdits(text, jsonc.modify(text, tp, v, {})): the node at tp is
\* replaced by JSON.stringify(v), or the missing property is inserted into
\* the deepest existing parent; the rest of the text is kept, so comments
\* outside the replaced node survive and those inside it are lost
Modify(text, tp, v) ==
    LET j == ParentLen(text.tree, tp)
        parent == KeysOf(SubSeq(tp, 1, j))
        seg == tp[j + 1]
        val == Wrap(v, SubSeq(tp, j + 2, Len(tp)))
        len == ArrLen(text.tree, parent)
        key == IF seg.num /\ IndexOf(seg.key) >= len THEN IndexName(len) ELSE seg.key
        at == parent \o <<key>>
    IN  [k |-> "json",
         tree |-> Graft(text.tree, at, val),
         cm |-> {c \in text.cm : ~(IsPrefix(at, c) /\ c # at)},
         fmt |-> IF at \in DOMAIN text.tree /\ Sub(text.tree, at) = val
                    /\ DOMAIN val = {<< >>}
                 THEN text.fmt ELSE FALSE]

\* ------------------------------------------------------------ the inputs
\* default templates handed to the constructor
Templates == {Obj2("a", Scalar(0), "b", Scalar(0)),
              Obj2("a", Scalar(0), "o", Obj1("x", Scalar(0)))}

\* file contents: {"a": 1} with a comment next to a, and {"b": 2, "c": 3}
TextA == Json(Obj1("a", Scalar(1)), {<<"a">>}, TRUE)
TextBC == Json(Obj2("b", Scalar(2), "c", Scalar(3)), {}, FALSE)
\* {"o": {"y": 1}} with a comment inside the nested object, next to y
TextO == Json(Obj1("o", Obj1("y", Scalar(1))), {<<"o", "y">>}, TRUE)
\* a valid text whose root is an array: [1]
TextArr == Json(Arr1(Scalar(1)), {}, FALSE)

NoFile == [exists |-> FALSE, text |-> EmptyText, mtime |-> 0, by |-> "none"]
FileOf(text, mtime, by) == [exists |-> TRUE, text |-> text, mtime |-> mtime, by |-> by]

InitialFiles == {NoFile} \cup {FileOf(t, 0, "ext") : t \in {TextA, TextBC, TextO, TextArr, BadText}}
\* the files a store with template t is started on: the nested text goes
\* with the template that has the nested object, the array and the broken
\* text with the flat one
FilesFor(t) ==
    IF <<"o">> \in DOMAIN t
    THEN {NoFile} \cup {FileOf(x, 0, "ext") : x \in {TextA, TextO}}
    ELSE InitialFiles \ {FileOf(TextO, 0, "ext")}
ExtTexts == {TextBC}

\* property writes offered to the caller: path and new value
WritePaths == {<<"c">>, <<"o", "x">>}
WriteValues == {Scalar(7)}

\* ------------------------------------------------------------- the state
VARIABLES
    file,          \* the file at this.path: exists, text, mtime, last writer
    old,           \* a file exists at this.path + "_old"
    clock,         \* the next modification time the file system hands out
    tmpl,          \* the template as supplied to the constructor
    watchFile,     \* constructor argument watchFile
    config,        \* the object behind #config
    defaultConfig, \* the object behind #defaultConfig
    alias,         \* what the two objects share: same object, shared members
    proxied,       \* #config is the Proxy made by load()
    configCache,   \* #configCache
    reAssigning,   \* #reAssigning
    lastSaveTime,  \* #lastSaveTime
    watcher,       \* #fileWatcher: installed, and chokidar's view of the file
    tasks,         \* the load() and save() calls suspended at an await
    initState,     \* the constructor's init(): running, done or failed
    nOps,          \* calls by the owner and edits by other processes so far
    lastSet,       \* the last property write, until another process edits the file
    step,          \* the action taken last and what it did
    life,          \* unload()/reload() so far: see Unloaded and NoReload
    lang,          \* a call of Language.translate: dictionary, arguments, result
    pos,           \* a call of getLineAndColumnNumber: text, offset, result
    i18n,          \* an I18n: its languages, the active code, the call in progress
    form,          \* a form: its result list, the promises of its sends
    got,           \* the last read through get(): path, outcome
    customForm     \* a CustomFormEx: components, keys at the host, response

storeVars == <<file, old, clock, tmpl, watchFile, config, defaultConfig, alias,
               proxied, configCache, reAssigning, lastSaveTime, watcher, tasks,
               initState, nOps, lastSet, step, life>>

\* the state of the library's other parts
libVars == <<lang, pos, i18n, form, got, customForm>>

vars == <<storeVars, libVars>>

NoSet == [on |-> FALSE, p |-> << >>, v |-> Scalar(0), inLoad |-> FALSE]

\* life.unloaded: an unload() called by the owner has resolved and init() has
\* not been called since.  life.clean: the reload() in flight was called with
\* nothing pending and nothing else was called or edited since.  life.last:
\* value and file as the last such reload() left them, n counting how many
\* of them completed in a row.
NoReload == [n |-> 0, config |-> EmptyObj, exists |-> FALSE, text |-> EmptyText]
Disturb(l) == [l EXCEPT !.clean = FALSE, !.last = NoReload]

\* no call of translate
NotCalled == [t |-> "none", s |-> << >>]
NoCall == [dict |-> << >>, key |-> "", data |-> << >>, out |-> NotCalled]

\* no call of getLineAndColumnNumber, no I18n and no form
NoPos == [str |-> << >>, index |-> 0, out |-> [t |-> "none", line |-> 0, column |-> 0]]
NoRegistry == [on |-> FALSE]
NoForm == [on |-> FALSE]

\* no custom form is being built
NoCustom == [on |-> FALSE]

\* nothing has been read through get()
NoRead == [on |-> FALSE, p |-> << >>, threw |-> FALSE, val |-> Scalar(0)]

\* what a step did; who names the caller of the load() that ended with it
DidBy(op, arg, n, who) == [op |-> op, arg |-> arg, n |-> n, who |-> who]
Did(op, arg, n) == DidBy(op, arg, n, "")

\* a load() call suspended at `await fs.pathExists(this.path)`
NewLoad(origin) ==
    [kind |-> "load", pc |-> "pathExists", origin |-> origin,
     toWrite |-> EmptyText, nsave |-> 0, src |-> "none"]

\* save() up to `await fs.writeFile(this.path, toWrite)`: the cache is
\* formatted and the formatted text is what will be written
SaveSync(cache) == Format(cache)

NewSave(origin, toWrite) ==
    [kind |-> "save", pc |-> "writeFile", origin |-> origin,
     toWrite |-> toWrite, nsave |-> 0, src |-> "none"]

\* The suspended calls form a bag: which of two calls suspended at the same
\* place with the same data resumes first makes no difference.
Spawn(bag, t) == bag (+) SetToBag({t})
Finish(bag, t) == bag (-) SetToBag({t})
Resume(bag, t, u) == Spawn(Finish(bag, t), u)

\* the save() calls started by set traps, one per text handed to writeFile
RECURSIVE SpawnSaves(_, _)
SpawnSaves(bag, texts) ==
    IF texts = << >> THEN bag
    ELSE SpawnSaves(Spawn(bag, NewSave("trap", Head(texts))), Tail(texts))

\* --------------------------------------------- the change-interception layer
\* the access path of a write, each segment typed by getKey from the kind of
\* the container it indexes
TypedPath(cfg, p) ==
    [i \in 1..Len(p) |-> getKey(cfg[SubSeq(p, 1, i - 1)], p[i])]

\* Reflect.set(target, key, v) on the object reached from #config by path p.
\* #defaultConfig is a shallow copy of the caller's object (or, after
\* unload(), the very object behind #config), so a write inside a member the
\* two share is a write to both, and a write of a top-level member of one
\* ends the sharing of that member.
Store(s, p, v) ==
    LET cfg == Graft(s.config, p, v)
    IN  [s EXCEPT !.config = cfg,
                  !.dflt = IF s.same THEN cfg
                           ELSE IF Len(p) >= 2 /\ p[1] \in s.shared
                           THEN Graft(s.dflt, p, v)
                           ELSE s.dflt,
                  !.shared = IF Len(p) = 1 THEN s.shared \ {p[1]} ELSE s.shared]

\* a set trap that starts a save whatever #reAssigning says
SetTrapAlwaysSaving(s, p, v) ==
    LET tp == TypedPath(s.config, p)
        set == Store(s, p, v)
    IN  IF ModifyThrows(s.cache, tp) THEN [set EXCEPT !.threw = TRUE]
        ELSE LET edited == Modify(s.cache, tp, v)
             IN  [set EXCEPT !.cache = Format(edited),
                             !.started = Append(s.started, Format(edited))]

\* The set trap of createProxyHandler(path), on s = the store fields it
\* reads and writes: Reflect.set, then the text edit of the cache, then
\* save() unless #reAssigning.  started collects the texts handed to
\* fs.writeFile by the saves it starts; threw tells that jsonc.modify threw.
SetTrap(s, p, v) ==
    LET tp == TypedPath(s.config, p)
        set == Store(s, p, v)
    IN  IF ModifyThrows(s.cache, tp) THEN [set EXCEPT !.threw = TRUE]
        ELSE LET edited == Modify(s.cache, tp, v)
             IN  IF s.flag THEN [set EXCEPT !.cache = edited]
                 ELSE [set EXCEPT !.cache = SaveSync(edited),
                                  !.started = Append(s.started, SaveSync(edited))]

\* the order in which Object.assign visits the keys of its source: integer
\* keys first, then the others
KeyOrder == <<"0", "1", "2", "a", "b", "c", "o", "x", "y">>
InSet(S) == [k \in {"0", "1", "2", "a", "b", "c", "o", "x", "y"} |-> k \in S]
OrderedKeys(data) ==
    LET in == InSet(TopKeys(data)) IN SelectSeq(KeyOrder, LAMBDA k : in[k])

\* a copy that leaves alone the keys the value already has
RECURSIVE AssignMissingKeys(_, _, _)
AssignMissingKeys(s, data, keys) ==
    IF keys = << >> \/ s.threw THEN s
    ELSE AssignMissingKeys(
             IF <<Head(keys)>> \in DOMAIN s.config THEN s
             ELSE SetTrap(s, <<Head(keys)>>, Sub(data, <<Head(keys)>>)),
             data, Tail(keys))

\* Object.assign(this.#config, configData): one set trap per own key of the
\* data, stopping at the first one that throws
RECURSIVE AssignKeys(_, _, _)
AssignKeys(s, data, keys) ==
    IF keys = << >> \/ s.threw THEN s
    ELSE AssignKeys(SetTrap(s, <<Head(keys)>>, Sub(data, <<Head(keys)>>)),
                    data, Tail(keys))

\* the try block of load() once the file is read: parse, take the text as the
\* cache, raise #reAssigning, copy the data into #config, lower #reAssigning
LoadTry(text, s) ==
    LET parsed == Parse(text)
        isNull == parsed.data[<< >>] = NULL
        data == IF isNull THEN EmptyObj ELSE parsed.data
        cache == IF isNull THEN Stringify(EmptyObj) ELSE text
        merged == AssignKeys([s EXCEPT !.cache = cache, !.flag = TRUE],
                             data, OrderedKeys(data))
    IN  IF parsed.errs THEN [s EXCEPT !.threw = TRUE]
        ELSE IF merged.threw THEN merged
        ELSE [merged EXCEPT !.flag = FALSE]

\* e.cause of the errors load() can catch: KomomoError keeps its reason in
\* causedBy and passes no cause on, file-system and jsonc errors have none
CauseOf(err) == "undefined"
\* the catch block evaluates e.cause.toString() and so throws a TypeError
CatchThrows(err) == CauseOf(err) = "undefined"

\* a guard that also lets through an event as old as the last save
IsNewerOrSame(mtime, last) == mtime >= last

\* the change/add handlers' guard
IsNewer(mtime, last) == mtime > last

\* the members Object.assign({}, defaultConfig) copies by reference: the
\* top-level members that are objects or arrays
SharedMembers(t) == {k \in TopKeys(t) : t[<<k>>] \in {OBJ, ARR}}

\* the fields of the store a set trap reads and writes
Fields ==
    [config |-> config, cache |-> configCache, flag |-> reAssigning,
     started |-> << >>, threw |-> FALSE, dflt |-> defaultConfig,
     same |-> alias.same, shared |-> alias.shared]

\* #fileWatcher undefined; live counts the chokidar watchers not yet closed
NoWatcher == [on |-> FALSE, dirty |-> FALSE, seen |-> FALSE, live |-> 0]

\* an init() that registers a watcher without looking at #fileWatcher
InstallUnchecked(w, wanted, exists) ==
    IF wanted
    THEN [on |-> TRUE, dirty |-> FALSE, seen |-> exists, live |-> w.live + 1]
    ELSE w

\* init() after its load(): `if (this.watchFile && !this.#fileWatcher)
\* this.#registerFileWatcher()`; the new watcher starts from the file as it
\* is (ignoreInitial)
Install(w, wanted, exists) ==
    IF wanted /\ ~w.on
    THEN [on |-> TRUE, dirty |-> FALSE, seen |-> exists, live |-> w.live + 1]
    ELSE w

\* ------------------------------------------------------------ construction
\* new Config(path, defaultConfig, watchFile): the fields are set and init()
\* has called load(), which is suspended at its first await
InitStore ==
    /\ tmpl \in Templates
    /\ watchFile \in BOOLEAN
    /\ file \in FilesFor(tmpl)
    /\ old = FALSE
    /\ clock = 1
    /\ config = tmpl
    /\ defaultConfig = tmpl
    /\ alias = [same |-> FALSE, shared |-> SharedMembers(tmpl)]
    /\ proxied = FALSE
    /\ configCache = Stringify(tmpl)
    /\ reAssigning = FALSE
    /\ lastSaveTime = 0 - 1
    /\ watcher = NoWatcher
    /\ tasks = SetToBag({NewLoad("init")})
    /\ initState = "running"
    /\ nOps = 0
    /\ lastSet = NoSet
    /\ step = Did("new", "", 0)
    /\ life = [unloaded |-> FALSE, clean |-> FALSE, last |-> NoReload]

Init ==
    /\ InitStore
    /\ lang = NoCall
    /\ pos = NoPos
    /\ i18n = NoRegistry
    /\ form = NoForm
    /\ got = NoRead
    /\ customForm = NoCustom

\* chokidar notices a modification of the watched file
Touched(w) == [w EXCEPT !.dirty = w.on]

\* What ends with a load() that leaves value cfg.  The init() that awaited
\* it goes on to install the watcher; origin names the caller: the
\* constructor's init() ("init"), an init() called by the owner ("again") or
\* by reload() ("reload"), the watcher ("watch"), or load() called directly.
AfterLoad(origin, ok, cfg) ==
    /\ initState' = IF origin = "init" THEN (IF ok THEN "done" ELSE "failed")
                    ELSE initState
    /\ watcher' = IF origin \in {"init", "again", "reload"} /\ ok
                  THEN Install(watcher, watchFile, file.exists)
                  ELSE watcher
    /\ life' = IF origin = "reload"
               THEN [life EXCEPT !.last =
                        IF life.clean
                        THEN [n |-> IF life.last.n = 0 THEN 1 ELSE 2, config |-> cfg,
                              exists |-> file.exists, text |-> file.text]
                        ELSE NoReload]
               ELSE life

\* ------------------------------------------------------------------ load()
\* `await fs.pathExists(this.path)` completes
LoadPathExists(t) ==
    /\ t \in BagToSet(tasks)
    /\ t.pc = "pathExists"
    /\ tasks' = Resume(tasks, t, [t EXCEPT !.pc = IF file.exists THEN "readFile" ELSE "ensureFile"])
    /\ step' = Did("await", "", 0)
    /\ UNCHANGED <<file, old, clock, tmpl, watchFile, config, proxied, configCache,
                   reAssigning, lastSaveTime, watcher, initState, nOps, lastSet>>
    /\ UNCHANGED <<defaultConfig, alias, life, libVars>>

\* `await fs.readFile` completes: the try block runs, then either the catch
\* block or save() up to its writeFile
LoadReadFile(t) ==
    /\ t \in BagToSet(tasks)
    /\ t.pc = "readFile"
    /\ LET s0 == Fields
           r == IF file.exists THEN LoadTry(file.text, s0) ELSE [s0 EXCEPT !.threw = TRUE]
           err == IF ~file.exists THEN "ENOENT"
                  ELSE IF Parse(file.text).errs THEN "JsoncSyntaxError"
                  ELSE "Error"
       IN  /\ config' = r.config
           /\ defaultConfig' = r.dflt
           /\ alias' = [same |-> r.same, shared |-> r.shared]
           /\ reAssigning' = r.flag
           /\ proxied' = (proxied \/ (file.exists /\ ~Parse(file.text).errs))
           /\ IF r.threw
              THEN /\ configCache' = r.cache
                   /\ IF CatchThrows(err)
                      THEN /\ tasks' = SpawnSaves(Finish(tasks, t), r.started)
                           /\ step' = DidBy("loadRejected", err, 0, t.origin)
                           /\ AfterLoad(t.origin, FALSE, r.config)
                      ELSE /\ tasks' = SpawnSaves(Resume(tasks, t, [t EXCEPT !.pc = "rename"]),
                                                  r.started)
                           /\ step' = Did("caught", err, 0)
                           /\ UNCHANGED <<initState, watcher, life>>
              ELSE /\ configCache' = SaveSync(r.cache)
                   /\ tasks' = Spawn(SpawnSaves(Finish(tasks, t), r.started),
                                      [t EXCEPT !.pc = "writeFile",
                                                !.toWrite = SaveSync(r.cache),
                                                !.nsave = Len(r.started) + 1,
                                                !.src = "file"])
                   /\ step' = Did("merged", "", Len(r.started))
                   /\ UNCHANGED <<initState, watcher, life>>
    /\ UNCHANGED <<file, old, clock, tmpl, watchFile, lastSaveTime, nOps, lastSet, libVars>>

\* `await fs.ensureFile` (file absent) or `await fs.rename` (catch block)
\* completes, then save() runs up to its writeFile
LoadEnsureFileUpTo(t, lim) ==
    /\ t \in BagToSet(tasks)
    /\ t.pc \in {"ensureFile", "rename"}
    /\ clock <= lim
    /\ IF t.pc = "rename" /\ ~file.exists
       THEN /\ tasks' = Finish(tasks, t)
            /\ step' = DidBy("loadRejected", "ENOENT", 0, t.origin)
            /\ AfterLoad(t.origin, FALSE, config)
            /\ UNCHANGED <<file, old, clock, configCache>>
       ELSE /\ IF t.pc = "rename"
               THEN /\ file' = NoFile
                    /\ old' = TRUE
                    /\ watcher' = Touched(watcher)
                    /\ UNCHANGED clock
               ELSE IF file.exists
               THEN UNCHANGED <<file, old, clock, watcher>>
               ELSE /\ file' = FileOf(EmptyText, clock, "ensure")
                    /\ clock' = clock + 1
                    /\ watcher' = Touched(watcher)
                    /\ UNCHANGED old
            /\ configCache' = SaveSync(configCache)
            /\ tasks' = Resume(tasks, t, [t EXCEPT !.pc = "writeFile",
                                                    !.toWrite = SaveSync(configCache),
                                                    !.nsave = t.nsave + 1,
                                                    !.src = t.pc])
            /\ step' = Did("await", "", 0)
            /\ UNCHANGED <<initState, life>>
    /\ UNCHANGED <<tmpl, watchFile, config, proxied, reAssigning, lastSaveTime, nOps, lastSet>>
    /\ UNCHANGED <<defaultConfig, alias, libVars>>

LoadEnsureFile(t) == LoadEnsureFileUpTo(t, MaxClock)

\* ------------------------------------------------------------------ save()
\* `await fs.writeFile(this.path, toWrite)` completes
SaveWriteFileUpTo(t, lim) ==
    /\ t \in BagToSet(tasks)
    /\ t.pc = "writeFile"
    /\ clock <= lim
    /\ file' = FileOf(t.toWrite, clock, "save")
    /\ clock' = clock + 1
    /\ watcher' = Touched(watcher)
    /\ tasks' = Resume(tasks, t, [t EXCEPT !.pc = "stat"])
    /\ step' = Did("await", "", 0)
    /\ UNCHANGED <<old, tmpl, watchFile, config, proxied, configCache, reAssigning,
                   lastSaveTime, initState, nOps, lastSet>>
    /\ UNCHANGED <<defaultConfig, alias, life, libVars>>

SaveWriteFile(t) == SaveWriteFileUpTo(t, MaxClock)

\* a time stamp that keeps only the parity of the modification time
StatTimeWrapped(f) == f.mtime % 2

\* `(await fs.stat(this.path)).mtime.getTime()`: the modification time of
\* the file as it is when the stat completes
StatTime(f) == f.mtime

\* `await fs.stat(this.path)` completes: the mtime is recorded and save()
\* returns, and with it the load() that awaited it
SaveStat(t) ==
    /\ t \in BagToSet(tasks)
    /\ t.pc = "stat"
    /\ lastSaveTime' = IF file.exists THEN StatTime(file) ELSE lastSaveTime
    /\ tasks' = Finish(tasks, t)
    /\ step' = IF ~file.exists THEN DidBy(t.kind \o "Rejected", "ENOENT", t.nsave, t.origin)
                ELSE DidBy(t.kind \o "Returned", t.src, t.nsave, t.origin)
    /\ IF t.kind = "load" THEN AfterLoad(t.origin, file.exists, config)
       ELSE UNCHANGED <<initState, watcher, life>>
    /\ UNCHANGED <<file, old, clock, tmpl, watchFile, config, proxied, configCache,
                   reAssigning, nOps, lastSet>>
    /\ UNCHANGED <<defaultConfig, alias, libVars>>

\* ------------------------------------------------------------- the watcher
\* the event chokidar emits once the file is stable, from its own view of
\* the file; the stats it passes are those of the file at that moment
EventKind ==
    IF file.exists THEN (IF watcher.seen THEN "change" ELSE "add")
    ELSE (IF watcher.seen THEN "unlink" ELSE "none")

\* the handlers installed by #registerFileWatcher
WatcherEvent ==
    /\ watcher.on
    /\ watcher.dirty
    /\ BagCardinality(tasks) < MaxTasks
    /\ watcher' = [watcher EXCEPT !.dirty = FALSE, !.seen = file.exists]
    /\ LET loads == \/ EventKind = "unlink"
                    \/ EventKind \in {"change", "add"} /\ IsNewer(file.mtime, lastSaveTime)
       IN  /\ tasks' = IF loads THEN Spawn(tasks, NewLoad("watch")) ELSE tasks
           /\ step' = Did(IF loads THEN "eventLoad" ELSE "eventIgnored", EventKind, 0)
    /\ UNCHANGED <<file, old, clock, tmpl, watchFile, config, proxied, configCache,
                   reAssigning, lastSaveTime, initState, nOps, lastSet>>
    /\ UNCHANGED <<defaultConfig, alias, life, libVars>>

\* --------------------------------------------------- the owner of the store
\* the save() calls started by set traps that are still suspended
PendingTrapSaves == {t \in BagToSet(tasks) : t.kind = "save" /\ t.origin = "trap"}

\* some load() is suspended at `await fs.readFile`, before it parses and
\* merges what it read
Reading == \E t \in BagToSet(tasks) : t.kind = "load" /\ t.pc = "readFile"

\* a property write through get(): get().k = v, or get().o.k = v through
\* the handle the get trap returns for a nested object
SetProp(p, v) ==
    /\ initState # "running"
    /\ nOps < MaxOps
    /\ BagCardinality(tasks) < MaxTasks
    /\ SubSeq(p, 1, Len(p) - 1) \in DOMAIN config
    /\ config[SubSeq(p, 1, Len(p) - 1)] \in {OBJ, ARR}
    /\ nOps' = nOps + 1
    /\ lastSet' = [on |-> TRUE, p |-> p, v |-> v, inLoad |-> proxied /\ Reading]
    /\ life' = Disturb(life)
    /\ step' = Did("set", "", Cardinality(PendingTrapSaves))
    /\ LET r == IF proxied THEN SetTrap(Fields, p, v) ELSE Store(Fields, p, v)
       IN  /\ config' = r.config
           /\ defaultConfig' = r.dflt
           /\ alias' = [same |-> r.same, shared |-> r.shared]
           /\ configCache' = r.cache
           /\ tasks' = SpawnSaves(tasks, r.started)
    /\ UNCHANGED <<file, old, clock, tmpl, watchFile, proxied, reAssigning,
                   lastSaveTime, watcher, initState, libVars>>

\* an explicit save() call
UserSave ==
    /\ initState # "running"
    /\ nOps < MaxOps
    /\ BagCardinality(tasks) < MaxTasks
    /\ nOps' = nOps + 1
    /\ configCache' = SaveSync(configCache)
    /\ tasks' = Spawn(tasks, NewSave("user", SaveSync(configCache)))
    /\ step' = Did("call", "", 0)
    /\ life' = Disturb(life)
    /\ UNCHANGED <<file, old, clock, tmpl, watchFile, config, proxied, reAssigning,
                   lastSaveTime, watcher, initState, lastSet>>
    /\ UNCHANGED <<defaultConfig, alias, libVars>>

\* ---------------------------------------------------------- other processes
\* another process rewrites the file
ExtWrite(text) ==
    /\ initState # "running"
    /\ nOps < MaxOps
    /\ nOps' = nOps + 1
    /\ lastSet' = NoSet
    /\ file' = FileOf(text, clock, "ext")
    /\ clock' = clock + 1
    /\ watcher' = Touched(watcher)
    /\ step' = Did("edit", "", 0)
    /\ life' = Disturb(life)
    /\ UNCHANGED <<old, tmpl, watchFile, config, proxied, configCache, reAssigning,
                   lastSaveTime, tasks, initState>>
    /\ UNCHANGED <<defaultConfig, alias, libVars>>

\* another process deletes the file
ExtDelete ==
    /\ initState # "running"
    /\ nOps < MaxOps
    /\ file.exists
    /\ nOps' = nOps + 1
    /\ lastSet' = NoSet
    /\ file' = NoFile
    /\ watcher' = Touched(watcher)
    /\ step' = Did("edit", "", 0)
    /\ life' = Disturb(life)
    /\ UNCHANGED <<old, clock, tmpl, watchFile, config, proxied, configCache,
                   reAssigning, lastSaveTime, tasks, initState>>
    /\ UNCHANGED <<defaultConfig, alias, libVars>>

Next ==
    \/ \E t \in BagToSet(tasks) : LoadPathExists(t)
    \/ \E t \in BagToSet(tasks) : LoadReadFile(t)
    \/ \E t \in BagToSet(tasks) : LoadEnsureFile(t)
    \/ \E t \in BagToSet(tasks) : SaveWriteFile(t)
    \/ \E t \in BagToSet(tasks) : SaveStat(t)
    \/ WatcherEvent
    \/ \E p \in WritePaths, v \in WriteValues : SetProp(p, v)
    \/ UserSave
    \/ \E t \in ExtTexts : ExtWrite(t)
    \/ ExtDelete

Spec == Init /\ [][Next]_vars

\* ------------------------------------------- unload(), reload(), init()
\* some unload() is suspended at the close of the watcher
Unloading == \E t \in BagToSet(tasks) : t.kind = "unload"

\* an unload() suspended at `await this.#fileWatcher.close()`
NewUnload(origin) ==
    [kind |-> "unload", pc |-> "close", origin |-> origin,
     toWrite |-> EmptyText, nsave |-> 0, src |-> "none"]

\* the last two statements of unload(): #config is #defaultConfig itself
\* from now on, and the cache is its serialization
ResetToDefault ==
    /\ config' = defaultConfig
    /\ alias' = [alias EXCEPT !.same = TRUE]
    /\ proxied' = FALSE
    /\ configCache' = Stringify(defaultConfig)
    /\ UNCHANGED defaultConfig

\* unload() or reload() is called: with a watcher installed the call
\* suspends at its close; without one unload() runs to its end at once and
\* reload() goes on into init(), whose load() suspends at its first await
CallUnload(origin) ==
    /\ nOps < MaxOps
    /\ BagCardinality(tasks) < MaxTasks
    /\ ~Unloading
    /\ nOps' = nOps + 1
    /\ lastSet' = NoSet
    /\ LET clean == origin = "reload" /\ tasks = EmptyBag /\ ~watcher.dirty
           l == IF clean THEN [life EXCEPT !.clean = TRUE] ELSE Disturb(life)
       IN  IF watcher.on
           THEN /\ tasks' = Spawn(tasks, NewUnload(origin))
                /\ life' = l
                /\ step' = Did("call", "", 0)
                /\ UNCHANGED <<config, defaultConfig, alias, proxied, configCache>>
           ELSE /\ ResetToDefault
                /\ tasks' = IF origin = "reload" THEN Spawn(tasks, NewLoad("reload"))
                            ELSE tasks
                /\ life' = [l EXCEPT !.unloaded = (origin = "user")]
                /\ step' = IF origin = "reload" THEN Did("call", "", 0)
                           ELSE Did("unloadReturned", "", 0)
    /\ UNCHANGED <<file, old, clock, tmpl, watchFile, reAssigning, lastSaveTime,
                   watcher, initState, libVars>>

Unload == CallUnload("user")
Reload == CallUnload("reload")

\* `await this.#fileWatcher.close()` completes: the watcher is gone, the
\* field is cleared and the value reset; reload() goes on into init()
UnloadClose(t) ==
    /\ t \in BagToSet(tasks)
    /\ t.kind = "unload"
    /\ watcher' = [NoWatcher EXCEPT !.live = watcher.live - 1]
    /\ ResetToDefault
    /\ tasks' = IF t.origin = "reload" THEN Resume(tasks, t, NewLoad("reload"))
                ELSE Finish(tasks, t)
    /\ life' = [life EXCEPT !.unloaded = (t.origin = "user")]
    /\ step' = IF t.origin = "reload" THEN Did("await", "", 0)
               ELSE Did("unloadReturned", "", 0)
    /\ UNCHANGED <<file, old, clock, tmpl, watchFile, reAssigning, lastSaveTime,
                   initState, nOps, lastSet, libVars>>

\* the owner calls init() again
InitCall ==
    /\ nOps < MaxOps
    /\ BagCardinality(tasks) < MaxTasks
    /\ nOps' = nOps + 1
    /\ tasks' = Spawn(tasks, NewLoad("again"))
    /\ life' = [Disturb(life) EXCEPT !.unloaded = FALSE]
    /\ step' = Did("call", "", 0)
    /\ UNCHANGED <<file, old, clock, tmpl, watchFile, config, defaultConfig, alias,
                   proxied, configCache, reAssigning, lastSaveTime, watcher,
                   initState, lastSet, libVars>>

\* the run of the lifecycle calls goes one modification time further
Horizon == MaxClock + 1

\* the stores whose lifecycle is followed
InitOwner ==
    /\ Init
    /\ file \in {NoFile, FileOf(TextA, 0, "ext")}

InitLife ==
    /\ InitOwner
    /\ tmpl = Obj2("a", Scalar(0), "b", Scalar(0))

NextLife ==
    \/ \E t \in BagToSet(tasks) : LoadPathExists(t)
    \/ \E t \in BagToSet(tasks) : LoadReadFile(t)
    \/ \E t \in BagToSet(tasks) : LoadEnsureFileUpTo(t, Horizon)
    \/ \E t \in BagToSet(tasks) : SaveWriteFileUpTo(t, Horizon)
    \/ \E t \in BagToSet(tasks) : SaveStat(t)
    \/ \E t \in BagToSet(tasks) : UnloadClose(t)
    \/ WatcherEvent
    \/ Unload
    \/ Reload
    \/ InitCall

SpecLife == InitLife /\ [][NextLife]_vars

\* the lifecycle calls together with property writes and other processes
NextOwner ==
    \/ \E t \in BagToSet(tasks) : LoadPathExists(t)
    \/ \E t \in BagToSet(tasks) : LoadReadFile(t)
    \/ \E t \in BagToSet(tasks) : LoadEnsureFileUpTo(t, Horizon)
    \/ \E t \in BagToSet(tasks) : SaveWriteFileUpTo(t, Horizon)
    \/ \E t \in BagToSet(tasks) : SaveStat(t)
    \/ \E t \in BagToSet(tasks) : UnloadClose(t)
    \/ WatcherEvent
    \/ Unload
    \/ Reload
    \/ InitCall
    \/ \E p \in WritePaths, v \in WriteValues : SetProp(p, v)
    \/ \E t \in ExtTexts : ExtWrite(t)
    \/ ExtDelete

SpecOwner == InitOwner /\ [][NextOwner]_vars

\* ------------------------------------------------------ Language.translate
\* A string is a sequence of characters; a key is kept whole, as one item.
Str(chars) == [t |-> "string", s |-> chars]

\* the placeholder `{${i}}`
DigitOf(i) == IF i = 0 THEN "0" ELSE IF i = 1 THEN "1" ELSE "2"
Placeholder(i) == <<"{", DigitOf(i), "}">>

\* str.split(old).join(new): every occurrence of old, found from the left
\* without overlap, is replaced by new
RECURSIVE ReplaceAll(_, _, _)
ReplaceAll(str, pat, new) ==
    IF Len(str) < Len(pat) THEN str
    ELSE IF SubSeq(str, 1, Len(pat)) = pat
    THEN new \o ReplaceAll(SubSeq(str, Len(pat) + 1, Len(str)), pat, new)
    ELSE <<Head(str)>> \o ReplaceAll(Tail(str), pat, new)

\* the loop of translate from index i on (i counts from 0)
RECURSIVE Substitute(_, _, _)
Substitute(str, data, i) ==
    IF i >= Len(data) THEN str
    ELSE Substitute(ReplaceAll(str, Placeholder(i), data[i + 1]), data, i + 1)

\* the members every object inherits from Object.prototype
ProtoKeys == {"constructor", "toString"}

\* this.get()[key]: the own member, else the inherited one, else undefined
Lookup(dict, key) ==
    IF key \in DOMAIN dict THEN Str(dict[key])
    ELSE IF key \in ProtoKeys THEN [t |-> "function", s |-> << >>]
    ELSE [t |-> "undefined", s |-> << >>]

\* translate(key, data): the key when the lookup is falsy (undefined or the
\* empty string); else the loop, whose result.split throws a TypeError when
\* result is not a string
translate(dict, key, data) ==
    LET result == Lookup(dict, key)
    IN  IF result.t = "undefined" \/ (result.t = "string" /\ result.s = << >>)
        THEN Str(<<key>>)
        ELSE IF result.t = "string" THEN Str(Substitute(result.s, data, 0))
        ELSE IF data = << >> THEN result
        ELSE [t |-> "throws", s |-> << >>]

\* the dictionary of the calls: "Hi, {0}!" in short, a template with two
\* placeholders, and an empty translation
Dictionary ==
    [k \in {"greeting", "both", "empty"} |->
        IF k = "greeting" THEN <<"H", "{", "0", "}", "!">>
        ELSE IF k = "both" THEN <<"{", "1", "}", "{", "0", "}", "{", "0", "}">>
        ELSE << >>]
Keys == {"greeting", "both", "empty", "missing.key", "constructor"}
\* the values substituted: plain ones, and one that reads as a placeholder
SubValues == {<<"A">>, <<"B", "B">>, << >>, <<"{", "1", "}">>}
SubLists == UNION {[1..n -> SubValues] : n \in 0..MaxSubs}

\* a store that is not touched while translate is called on its value
InitLang ==
    /\ InitStore
    /\ tmpl = Obj2("a", Scalar(0), "b", Scalar(0))
    /\ ~watchFile
    /\ file = NoFile
    /\ lang \in [dict : {Dictionary}, key : Keys, data : SubLists, out : {NotCalled}]
    /\ pos = NoPos
    /\ i18n = NoRegistry
    /\ form = NoForm
    /\ got = NoRead
    /\ customForm = NoCustom

Translate ==
    /\ lang.out = NotCalled
    /\ lang' = [lang EXCEPT !.out = translate(lang.dict, lang.key, lang.data)]
    /\ UNCHANGED <<storeVars, pos, i18n, form, got, customForm>>

NextLang == Translate

SpecLang == InitLang /\ [][NextLang]_vars

\* -------------------------------------------------- getLineAndColumnNumber
\* A text is a sequence of characters, "\n" the newline.
Chars == {"x", "\n"}
PosTexts == UNION {[1..n -> Chars] : n \in 0..MaxLen}

\* str.split("\n"): the lines, without their newlines
RECURSIVE SplitLines(_)
SplitLines(str) ==
    IF \A k \in 1..Len(str) : str[k] # "\n" THEN <<str>>
    ELSE LET k == CHOOSE j \in 1..Len(str) :
                      str[j] = "\n" /\ \A h \in 1..(j - 1) : str[h] # "\n"
         IN  <<SubSeq(str, 1, k - 1)>> \o SplitLines(SubSeq(str, k + 1, Len(str)))

\* the loop over the lines from lines[i] on (i counts from 1, as the line
\* numbers returned do)
RECURSIVE ScanLines(_, _, _, _)
ScanLines(lines, index, i, totalLength) ==
    IF i > Len(lines)
    THEN [t |-> "IndexOutOfBoundsError", line |-> 0, column |-> 0]
    ELSE LET total == totalLength + Len(lines[i]) + 1
         IN  IF total > index
             THEN [t |-> "position", line |-> i, column |-> index - total]
             ELSE ScanLines(lines, index, i + 1, total)

getLineAndColumnNumber(str, index) == ScanLines(SplitLines(str), index, 1, 0)

\* a store that is not touched while an offset of a text is located
InitPos ==
    /\ InitStore
    /\ tmpl = Obj2("a", Scalar(0), "b", Scalar(0))
    /\ ~watchFile
    /\ file = NoFile
    /\ lang = NoCall
    /\ pos \in [str : PosTexts, index : 0..(MaxLen + 1), out : {NoPos.out}]
    /\ i18n = NoRegistry
    /\ form = NoForm
    /\ got = NoRead
    /\ customForm = NoCustom

Locate ==
    /\ pos.out.t = "none"
    /\ pos' = [pos EXCEPT !.out = getLineAndColumnNumber(pos.str, pos.index)]
    /\ UNCHANGED <<storeVars, lang, i18n, form, got, customForm>>

NextPos == Locate

SpecPos == InitPos /\ [][NextPos]_vars

\* -------------------------------------------------------------------- I18n
\* #languages is a Map: the codes of its entries in insertion order.  Every
\* loaded Language holds Dictionary.  A language code that is omitted (or
\* empty, which `langCode || this.localLangCode` treats alike) is "".
Codes == {"en", "zh", "xx"}
LangFiles == {"en", "zh"}
CodeArgs == Codes \cup {""}
TransKeys == {"greeting", "missing.key", "constructor"}
TransData == {<< >>, <<<<"A">>>>}

has(langs, code) == \E k \in 1..Len(langs) : langs[k] = code
IndexIn(langs, code) == CHOOSE k \in 1..Len(langs) : langs[k] = code
\* Map.set: a new key is appended, a present key keeps its place
MapSet(langs, code) == IF has(langs, code) THEN langs ELSE Append(langs, code)
\* Map.delete
MapDelete(langs, code) ==
    IF has(langs, code)
    THEN LET k == IndexIn(langs, code)
         IN  SubSeq(langs, 1, k - 1) \o SubSeq(langs, k + 1, Len(langs))
    ELSE langs

Void == [t |-> "void", s |-> << >>]
NoTimes == [c \in Codes |-> 0]
CallOf(op, code, key, data, out) ==
    [op |-> op, code |-> code, key |-> key, data |-> data, out |-> out]

\* new I18n(path, localLangCode, ...) once loadAllLanguages has loaded the
\* files of the directory
NewI18n(langs, active) ==
    [on |-> TRUE, langs |-> langs, active |-> active, pc |-> "idle",
     it |-> 0, cur |-> "", times |-> NoTimes, before |-> {},
     call |-> CallOf("new", "", "", << >>, Void)]

\* switchLanguage(langCode): the active code it leaves
switchLanguageUnchecked(r, langCode) == langCode
switchLanguage(r, langCode) ==
    IF has(r.langs, langCode) THEN langCode ELSE r.active

\* get(langCode): the Language, named by its code, or the Error thrown, whose
\* message interpolates the result of the failed lookup
I18nGet(r, langCode) ==
    LET wanted == IF langCode # "" THEN langCode ELSE r.active
        found == IF has(r.langs, wanted) THEN wanted ELSE "undefined"
    IN  IF found = "undefined"
        THEN [t |-> "throws",
              s |-> <<"Language '", found, "' not found. Please load it first.">>]
        ELSE [t |-> "language", s |-> <<found>>]

\* translate(key, data, langCode)
I18nTranslate(r, key, data, langCode) ==
    LET code == IF langCode # "" THEN langCode ELSE r.active
    IN  IF ~has(r.langs, code) THEN Str(<<key>>)
        ELSE LET l == I18nGet(r, code)
             IN  IF l.t = "throws" THEN l ELSE translate(Dictionary, key, data)

InitI18n ==
    /\ InitStore
    /\ tmpl = Obj2("a", Scalar(0), "b", Scalar(0))
    /\ ~watchFile
    /\ file = NoFile
    /\ lang = NoCall
    /\ pos = NoPos
    /\ i18n \in {NewI18n(l, a) : l \in {<< >>, <<"en">>, <<"en", "zh">>},
                                 a \in {"en", "xx"}}
    /\ form = NoForm
    /\ got = NoRead
    /\ customForm = NoCustom

LibOnly == UNCHANGED <<storeVars, lang, pos, form, got, customForm>>

SwitchLanguage(langCode) ==
    /\ i18n.on
    /\ i18n' = [i18n EXCEPT !.active = switchLanguage(i18n, langCode),
                            !.call = CallOf("switch", langCode, "", << >>, Void)]
    /\ LibOnly

GetLanguage(langCode) ==
    /\ i18n.on
    /\ i18n' = [i18n EXCEPT !.call = CallOf("get", langCode, "", << >>,
                                            I18nGet(i18n, langCode))]
    /\ LibOnly

TranslateVia(key, data, langCode) ==
    /\ i18n.on
    /\ i18n' = [i18n EXCEPT !.call =
                    CallOf("translate", langCode, key, data,
                           I18nTranslate(i18n, key, data, langCode))]
    /\ LibOnly

\* loadLanguage(langCode) and unloadLanguage(langCode), awaited by the
\* caller while no reloadAllLanguages is running
LoadLanguage(langCode) ==
    /\ i18n.on /\ i18n.pc = "idle"
    /\ i18n' = [i18n EXCEPT !.langs = MapSet(i18n.langs, langCode),
                            !.call = CallOf("load", langCode, "", << >>, Void)]
    /\ LibOnly

UnloadLanguage(langCode) ==
    /\ i18n.on /\ i18n.pc = "idle"
    /\ i18n' = [i18n EXCEPT !.langs = MapDelete(i18n.langs, langCode),
                            !.call = CallOf("unload", langCode, "", << >>, Void)]
    /\ LibOnly

\* reloadAllLanguages(): this.#languages.keys() makes the iterator; it counts
\* the entries the iterator has passed, times the reloads of the call, before
\* the codes loaded when it was called
ReloadAllCall ==
    /\ i18n.on /\ i18n.pc = "idle"
    /\ i18n' = [i18n EXCEPT !.pc = "iter", !.it = 0, !.cur = "",
                            !.times = NoTimes,
                            !.before = {i18n.langs[k] : k \in 1..Len(i18n.langs)},
                            !.call = CallOf("reloadAll", "", "", << >>,
                                            [t |-> "pending", s |-> << >>])]
    /\ LibOnly

Reloads(r) == r.times["en"] + r.times["zh"] + r.times["xx"]

\* the iterator's next(): the loop ends when no entry is left after the ones
\* passed; else reloadLanguage(lang) calls unloadLanguage(lang), which finds
\* the language and awaits its unload()
ReloadAllNext ==
    /\ i18n.on /\ i18n.pc = "iter"
    /\ IF i18n.it >= Len(i18n.langs)
       THEN i18n' = [i18n EXCEPT !.pc = "idle", !.cur = "",
                                 !.call = CallOf("reloadAll", "", "", << >>, Void)]
       ELSE /\ Reloads(i18n) < MaxReloads
            /\ i18n' = [i18n EXCEPT !.pc = "unload",
                                    !.cur = i18n.langs[i18n.it + 1],
                                    !.it = i18n.it + 1,
                                    !.call = CallOf("reloadAll", "", "", << >>,
                                                    [t |-> "pending", s |-> << >>])]
    /\ LibOnly

\* lang.unload() has resolved: this.#languages.delete(langCode); the entries
\* after the deleted one move up, and so does the iterator when the entry was
\* passed already.  reloadLanguage goes on to loadLanguage(langCode).
ReloadAllDelete ==
    /\ i18n.on /\ i18n.pc = "unload"
    /\ i18n' = [i18n EXCEPT
                   !.langs = MapDelete(i18n.langs, i18n.cur),
                   !.it = IF has(i18n.langs, i18n.cur)
                             /\ IndexIn(i18n.langs, i18n.cur) <= i18n.it
                          THEN i18n.it - 1 ELSE i18n.it,
                   !.pc = "load",
                   !.call = CallOf("reloadAll", "", "", << >>,
                                   [t |-> "pending", s |-> << >>])]
    /\ LibOnly

\* createLanguage(...) has resolved: this.#languages.set(value, lang)
ReloadAllSet ==
    /\ i18n.on /\ i18n.pc = "load"
    /\ i18n' = [i18n EXCEPT
                   !.langs = MapSet(i18n.langs, i18n.cur),
                   !.times[i18n.cur] = i18n.times[i18n.cur] + 1,
                   !.pc = "iter",
                   !.call = CallOf("reloadAll", "", "", << >>,
                                   [t |-> "pending", s |-> << >>])]
    /\ LibOnly

NextI18n ==
    \/ \E c \in Codes : SwitchLanguage(c)
    \/ \E c \in CodeArgs : GetLanguage(c)
    \/ \E k \in TransKeys, d \in TransData, c \in CodeArgs : TranslateVia(k, d, c)
    \/ \E c \in LangFiles : LoadLanguage(c)
    \/ \E c \in Codes : UnloadLanguage(c)
    \/ ReloadAllCall
    \/ ReloadAllNext
    \/ ReloadAllDelete
    \/ ReloadAllSet

SpecI18n == InitI18n /\ [][NextI18n]_vars

\* ------------------------------------------------------------------- forms
\* ModalFormEx, SimpleFormEx and CustomFormEx.  A player is named by its
\* uuid; what else may be handed to send and getResult is null or an object
\* that is no Player and has no uuid.
Players == {"p1", "p2"}
NonPlayers == {"null", "object"}
FormKinds == {"modal", "simple", "custom"}

\* a value a promise settles with, or an error thrown
Val(t, n) == [t |-> t, n |-> n]
NoVal == Val("none", 0)

\* what the host hands to the callback of sendTo: a cancellation with its
\* reason code, or an answer: the index of the button (SimpleFormEx), the
\* button as a boolean, 1 for true (ModalFormEx), the values of the
\* components (CustomFormEx)
Responses == [cancel : BOOLEAN, n : 0..1]

\* the callback handed to sendTo: what it makes of the promise
Settle(kind, resp) ==
    IF kind = "simple"
    THEN \* (_player, id, reason): if (reason) reject(reason) ... if (id) resolve(id)
         IF resp.cancel /\ resp.n # 0
         THEN [st |-> "rejected", v |-> Val("reason", resp.n)]
         ELSE IF ~resp.cancel /\ resp.n # 0
         THEN [st |-> "resolved", v |-> Val("index", resp.n)]
         ELSE [st |-> "pending", v |-> NoVal]
    ELSE \* (_, result): if (Number.isInteger(result)) reject(result) ... resolve
         IF resp.cancel
         THEN [st |-> "rejected", v |-> Val("reason", resp.n)]
         ELSE IF kind = "modal"
         THEN [st |-> "resolved", v |-> Val("boolean", resp.n)]
         ELSE [st |-> "resolved", v |-> Val("list", 0)]

\* player instanceof Player
instanceofPlayer(x) == x \in Players

\* KomomoError: this.causedBy = options?.causedBy
causedByIfTruthy(x) == IF x = "null" THEN "undefined" ELSE x
causedByOf(x) == x

\* this.#resultList.set(player.uuid, promise): i is the promise's number
RecordFirst(list, uuid, i) == IF list[uuid] = 0 THEN [list EXCEPT ![uuid] = i] ELSE list
Record(list, uuid, i) == [list EXCEPT ![uuid] = i]

\* getResult(player): an async function, so what it throws rejects the
\* promise it returns; reading player.uuid of null throws a TypeError, and
\* the uuid of an object without one is undefined, which is no key
getResult(f, x) ==
    IF x = "null" THEN Val("TypeError", 0)
    ELSE IF x \notin Players \/ f.resultList[x] = 0 THEN Val("UnsentFormError", 0)
    ELSE Val("promise", f.resultList[x])

NewForm(kind) ==
    [on |-> TRUE, kind |-> kind, resultList |-> [p \in Players |-> 0],
     sent |-> << >>, call |-> [op |-> "new", arg |-> "", out |-> NoVal]]

\* the promise of a send: wait is what its executor or the host has yet to
\* do, got and resp what the host answered
NewPromise(player, wait, st, v) ==
    [player |-> player, wait |-> wait, st |-> st, v |-> v,
     got |-> FALSE, resp |-> [cancel |-> FALSE, n |-> 0]]

InitForm ==
    /\ InitStore
    /\ tmpl = Obj2("a", Scalar(0), "b", Scalar(0))
    /\ ~watchFile
    /\ file = NoFile
    /\ lang = NoCall
    /\ pos = NoPos
    /\ i18n = NoRegistry
    /\ form \in {NewForm(k) : k \in FormKinds}
    /\ got = NoRead
    /\ customForm = NoCustom

FormOnly == UNCHANGED <<storeVars, lang, pos, i18n, got, customForm>>

\* send(x) with x no Player throws before anything is done
SendIllegal(x) ==
    /\ form.on /\ ~instanceofPlayer(x)
    /\ form' = [form EXCEPT !.call =
                   [op |-> "send", arg |-> x,
                    out |-> [t |-> "IllegalArgumentError", n |-> 0,
                             causedBy |-> causedByOf(x)]]]
    /\ FormOnly

\* send(player): the executor of the new promise runs at once; the one of
\* CustomFormEx suspends at `await delay(0)`, the others call sendTo, which
\* the host accepts or not; then the promise is put into #resultList
Send(x, success) ==
    /\ form.on /\ instanceofPlayer(x)
    /\ Len(form.sent) < MaxSends
    /\ form.kind = "custom" => success
    /\ LET promise ==
               IF form.kind = "custom" THEN NewPromise(x, "delay", "pending", NoVal)
               ELSE IF success THEN NewPromise(x, "host", "pending", NoVal)
               ELSE NewPromise(x, "none", "rejected", Val("error", 0))
       IN  form' = [form EXCEPT
                       !.sent = Append(form.sent, promise),
                       !.resultList = Record(form.resultList, x, Len(form.sent) + 1),
                       !.call = [op |-> "send", arg |-> x, out |-> NoVal]]
    /\ FormOnly

\* CustomFormEx: delay(0) is over and the executor calls sendTo
CustomSendTo(i, success) ==
    /\ form.on /\ i \in 1..Len(form.sent)
    /\ form.sent[i].wait = "delay"
    /\ form' = [form EXCEPT
                   !.sent[i] = IF success THEN [@ EXCEPT !.wait = "host"]
                               ELSE [@ EXCEPT !.wait = "none", !.st = "rejected",
                                              !.v = Val("error", 0)],
                   !.call = [op |-> "sendTo", arg |-> form.sent[i].player,
                             out |-> NoVal]]
    /\ FormOnly

\* the host calls the callback of the i-th send with the player's response
Respond(i, resp) ==
    /\ form.on /\ i \in 1..Len(form.sent)
    /\ form.sent[i].wait = "host"
    /\ LET s == Settle(form.kind, resp)
       IN  form' = [form EXCEPT
                       !.sent[i] = [@ EXCEPT !.wait = "none", !.st = s.st, !.v = s.v,
                                             !.got = TRUE, !.resp = resp],
                       !.call = [op |-> "respond", arg |-> form.sent[i].player,
                                 out |-> NoVal]]
    /\ FormOnly

GetResult(x) ==
    /\ form.on
    /\ form' = [form EXCEPT !.call = [op |-> "getResult", arg |-> x,
                                      out |-> getResult(form, x)]]
    /\ FormOnly

NextForm ==
    \/ \E x \in NonPlayers : SendIllegal(x)
    \/ \E x \in Players, ok \in BOOLEAN : Send(x, ok)
    \/ \E i \in 1..MaxSends, ok \in BOOLEAN : CustomSendTo(i, ok)
    \/ \E i \in 1..MaxSends, r \in Responses : Respond(i, r)
    \/ \E x \in Players \cup NonPlayers : GetResult(x)

SpecForm == InitForm /\ [][NextForm]_vars

\* ------------------------------------------------- a handle kept by a caller
\* get(): the traps of the handle read and write this.#config as it is when
\* the handle is used, not the object get() was called on, so a read through
\* a handle gives what the store's value holds at the path then
HandleGet(cfg, p) == IF p \in DOMAIN cfg THEN cfg[p] ELSE NOTEXT

\* what another process makes of the file when it parses it, assigns one
\* member and writes JSON.stringify(text, null, 4) back
EditedKey == "a"
EditOf(text) == Json(Graft(Parse(text).data, <<EditedKey>>, Scalar(5)), {}, TRUE)

\* another process does so while the store has nothing in flight
ExtEdit ==
    /\ tasks = EmptyBag
    /\ ~(watcher.on /\ watcher.dirty)
    /\ file.exists
    /\ ~Parse(file.text).errs
    /\ Parse(file.text).data[<< >>] = OBJ
    /\ ExtWrite(EditOf(file.text))

\* a store on the template with a nested member whose owner keeps the handle
\* of get() and writes the nested member through it
InitHandle ==
    /\ Init
    /\ tmpl = Obj2("a", Scalar(0), "o", Obj1("x", Scalar(0)))
    /\ file \in {NoFile, FileOf(TextA, 0, "ext")}

NextHandle ==
    \/ \E t \in BagToSet(tasks) : LoadPathExists(t)
    \/ \E t \in BagToSet(tasks) : LoadReadFile(t)
    \/ \E t \in BagToSet(tasks) : LoadEnsureFileUpTo(t, Horizon)
    \/ \E t \in BagToSet(tasks) : SaveWriteFileUpTo(t, Horizon)
    \/ \E t \in BagToSet(tasks) : SaveStat(t)
    \/ WatcherEvent
    \/ \E v \in WriteValues : SetProp(<<"o", "x">>, v)
    \/ ExtEdit

SpecHandle == InitHandle /\ [][NextHandle]_vars

\* ------------------------------------------------- writes into an array
\* a store whose value has an array member, on a file that holds the array:
\* {"o": [1]}; the owner writes elements of the array through get().o
TextList == Json(Obj1("o", Arr1(Scalar(1))), {}, TRUE)

InitDeep ==
    /\ tmpl = Obj2("a", Scalar(0), "o", Arr1(Scalar(0)))
    /\ watchFile \in BOOLEAN
    /\ file = FileOf(TextList, 0, "ext")
    /\ old = FALSE
    /\ clock = 1
    /\ config = tmpl
    /\ defaultConfig = tmpl
    /\ alias = [same |-> FALSE, shared |-> SharedMembers(tmpl)]
    /\ proxied = FALSE
    /\ configCache = Stringify(tmpl)
    /\ reAssigning = FALSE
    /\ lastSaveTime = 0 - 1
    /\ watcher = NoWatcher
    /\ tasks = SetToBag({NewLoad("init")})
    /\ initState = "running"
    /\ nOps = 0
    /\ lastSet = NoSet
    /\ step = Did("new", "", 0)
    /\ life = [unloaded |-> FALSE, clean |-> FALSE, last |-> NoReload]
    /\ lang = NoCall
    /\ pos = NoPos
    /\ i18n = NoRegistry
    /\ form = NoForm
    /\ got = NoRead
    /\ customForm = NoCustom

NextDeep ==
    \/ \E t \in BagToSet(tasks) : LoadPathExists(t)
    \/ \E t \in BagToSet(tasks) : LoadReadFile(t)
    \/ \E t \in BagToSet(tasks) : LoadEnsureFileUpTo(t, Horizon)
    \/ \E t \in BagToSet(tasks) : SaveWriteFileUpTo(t, Horizon)
    \/ \E t \in BagToSet(tasks) : SaveStat(t)
    \/ WatcherEvent
    \/ \E i \in IndexKeys, v \in WriteValues : SetProp(<<"o", i>>, v)
    \/ ExtDelete

SpecDeep == InitDeep /\ [][NextDeep]_vars

\* ------------------------------------------- writes issued back to back
\* a store without a watcher whose owner writes properties one after the
\* other, each write starting its own save(), and calls save() itself
InitWrites ==
    /\ Init
    /\ ~watchFile
    /\ tmpl = Obj2("a", Scalar(0), "o", Obj1("x", Scalar(0)))

NextWrites ==
    \/ \E t \in BagToSet(tasks) : LoadPathExists(t)
    \/ \E t \in BagToSet(tasks) : LoadReadFile(t)
    \/ \E t \in BagToSet(tasks) : LoadEnsureFileUpTo(t, Horizon)
    \/ \E t \in BagToSet(tasks) : SaveWriteFileUpTo(t, Horizon)
    \/ \E t \in BagToSet(tasks) : SaveStat(t)
    \/ \E p \in WritePaths, v \in WriteValues : SetProp(p, v)
    \/ UserSave

SpecWrites == InitWrites /\ [][NextWrites]_vars

\* ------------------------------------- edits of the file of a loaded store
\* a watched store loaded from {"b": 2, "c": 3}; another process then
\* rewrites the file without these keys, {"a": 1}, or with a syntax error
EditTexts == {TextA, BadText}

InitEdit ==
    /\ Init
    /\ watchFile
    /\ tmpl = Obj2("a", Scalar(0), "b", Scalar(0))
    /\ file = FileOf(TextBC, 0, "ext")

NextEdit ==
    \/ \E t \in BagToSet(tasks) : LoadPathExists(t)
    \/ \E t \in BagToSet(tasks) : LoadReadFile(t)
    \/ \E t \in BagToSet(tasks) : LoadEnsureFileUpTo(t, Horizon)
    \/ \E t \in BagToSet(tasks) : SaveWriteFileUpTo(t, Horizon)
    \/ \E t \in BagToSet(tasks) : SaveStat(t)
    \/ WatcherEvent
    \/ \E t \in EditTexts : ExtWrite(t)
    \/ ExtDelete

SpecEdit == InitEdit /\ [][NextEdit]_vars

\* ------------------------------------------------- reads through get()
\* typeof ret === "object": objects, arrays and null
TypeofObject(node) == node \in {OBJ, ARR, NULL}

\* the get trap of the Proxy made by load(), for the member at path p of the
\* value: a member whose typeof is "object" is wrapped, `new Proxy(ret,
\* ...)`, which throws a TypeError when ret is null; a missing member is
\* undefined
getTrap(cfg, p) ==
    IF p \notin DOMAIN cfg THEN [threw |-> FALSE, val |-> Scalar(NOTEXT)]
    ELSE IF TypeofObject(cfg[p]) /\ cfg[p] = NULL
    THEN [threw |-> TRUE, val |-> Scalar(NOTEXT)]
    ELSE [threw |-> FALSE, val |-> Sub(cfg, p)]

\* Reflect.get on a value that load() has not wrapped
plainGet(cfg, p) ==
    [threw |-> FALSE, val |-> IF p \in DOMAIN cfg THEN Sub(cfg, p) ELSE Scalar(NOTEXT)]

\* the paths read: a member, a nested object or array, and their members
ReadPaths == {<<"a">>, <<"o">>, <<"o", "x">>, <<"o", "0">>}

\* get().k, or get().o.k through the handle read from get().o
Read(p) ==
    /\ SubSeq(p, 1, Len(p) - 1) \in DOMAIN config
    /\ config[SubSeq(p, 1, Len(p) - 1)] \in {OBJ, ARR}
    /\ LET r == IF proxied THEN getTrap(config, p) ELSE plainGet(config, p)
       IN  got' = [on |-> TRUE, p |-> p, threw |-> r.threw, val |-> r.val]
    /\ step' = Did("get", "", 0)
    /\ UNCHANGED <<file, old, clock, tmpl, watchFile, config, defaultConfig, alias,
                   proxied, configCache, reAssigning, lastSaveTime, watcher, tasks,
                   initState, nOps, lastSet, life, lang, pos, i18n, form,
                   customForm>>

\* templates with a null member and with a null element of an array
ReadTemplates == {Obj2("a", Scalar(NULL), "o", Obj1("x", Scalar(0))),
                  Obj2("a", Scalar(0), "o", Arr1(Scalar(NULL)))}

InitRead ==
    /\ tmpl \in ReadTemplates
    /\ watchFile = FALSE
    /\ file \in {NoFile, FileOf(TextA, 0, "ext"), FileOf(TextO, 0, "ext")}
    /\ old = FALSE
    /\ clock = 1
    /\ config = tmpl
    /\ defaultConfig = tmpl
    /\ alias = [same |-> FALSE, shared |-> SharedMembers(tmpl)]
    /\ proxied = FALSE
    /\ configCache = Stringify(tmpl)
    /\ reAssigning = FALSE
    /\ lastSaveTime = 0 - 1
    /\ watcher = NoWatcher
    /\ tasks = SetToBag({NewLoad("init")})
    /\ initState = "running"
    /\ nOps = 0
    /\ lastSet = NoSet
    /\ step = Did("new", "", 0)
    /\ life = [unloaded |-> FALSE, clean |-> FALSE, last |-> NoReload]
    /\ lang = NoCall
    /\ pos = NoPos
    /\ i18n = NoRegistry
    /\ form = NoForm
    /\ got = NoRead
    /\ customForm = NoCustom

NextRead ==
    \/ \E t \in BagToSet(tasks) : LoadPathExists(t)
    \/ \E t \in BagToSet(tasks) : LoadReadFile(t)
    \/ \E t \in BagToSet(tasks) : LoadEnsureFileUpTo(t, Horizon)
    \/ \E t \in BagToSet(tasks) : SaveWriteFileUpTo(t, Horizon)
    \/ \E t \in BagToSet(tasks) : SaveStat(t)
    \/ \E p \in ReadPaths : Read(p)

SpecRead == InitRead /\ [][NextRead]_vars

\* -------------------------------------------- CustomFormEx: the components
\* the kinds of component: a label has no key at the host form, the
\* controls (input, toggle, dropdown, slider, step slider) are appended to
\* it under one
ComponentTypes == {"label", "input", "toggle"}

\* what the player enters in a control
Entered == {"x", "y"}

\* no index argument; no key; no such member in the response
NoIndex == 0 - 1
NoKey == [type |-> "none", n |-> 0]
Undefined == "undefined"

\* #getComponentKey(component, index):
\* `${component.type}-${index ?? this.#components.length}`
getComponentKey(type, index, length) ==
    [type |-> type, n |-> IF index = NoIndex THEN length ELSE index]

\* new CustomFormEx(title)
NewCustomForm ==
    [on |-> TRUE, components |-> << >>, keys |-> << >>, sent |-> FALSE,
     entered |-> << >>, out |-> << >>]

CustomOnly == UNCHANGED <<storeVars, lang, pos, i18n, form, got>>

\* addLabel, addInput, addToggle, ...: the component is pushed on
\* #components, then a control is appended to the host form under
\* #getComponentKey(component), called without an index
AddComponent(type) ==
    /\ ~customForm.sent
    /\ Len(customForm.components) < MaxLen
    /\ LET pushed == Append(customForm.components, type)
           key == IF type = "label" THEN NoKey
                  ELSE getComponentKey(type, NoIndex, Len(pushed))
       IN  customForm' = [customForm EXCEPT !.components = pushed,
                                            !.keys = Append(@, key)]
    /\ CustomOnly

\* the response of the host form: under the key of each control, what the
\* player entered in it
Response(keys, vals) ==
    LET controls == {i \in 1..Len(keys) : keys[i] # NoKey}
    IN  [k \in {keys[i] : i \in controls} |->
            vals[CHOOSE i \in controls : keys[i] = k]]

\* the callback of send(): for every component, by index,
\* values[index] = {...value, result: result[this.#getComponentKey(value, index)]}
ReadResults(components, result) ==
    [i \in 1..Len(components) |->
        LET key == getComponentKey(components[i], i - 1, Len(components))
        IN  IF key \in DOMAIN result THEN result[key] ELSE Undefined]

\* send(player), and the player fills the form in and submits it
SendAndSubmit(vals) ==
    /\ ~customForm.sent
    /\ customForm.components # << >>
    /\ customForm' = [customForm EXCEPT
                         !.sent = TRUE,
                         !.entered = vals,
                         !.out = ReadResults(customForm.components,
                                             Response(customForm.keys, vals))]
    /\ CustomOnly

InitCustom ==
    /\ InitStore
    /\ tmpl = Obj2("a", Scalar(0), "b", Scalar(0))
    /\ ~watchFile
    /\ file = NoFile
    /\ lang = NoCall
    /\ pos = NoPos
    /\ i18n = NoRegistry
    /\ form = NoForm
    /\ got = NoRead
    /\ customForm = NewCustomForm

NextCustom ==
    \/ \E type \in ComponentTypes : AddComponent(type)
    \/ \E vals \in [1..Len(customForm.components) -> Entered] : SendAndSubmit(vals)

SpecCustom == InitCustom /\ [][NextCustom]_vars

\* createConfig(path, config, watchFile): the promise it returns is resolved
\* by the afterInit callback, which the constructor calls once its init()
\* has returned; nothing ever rejects it
createConfig == IF initState = "done" THEN "resolved" ELSE "pending"

\* no call is suspended and the watcher has nothing left to report
Quiescent == tasks = EmptyBag /\ ~(watcher.on /\ watcher.dirty)

\* ================================================================== claims
FileData == Parse(file.text).data
FileIsObject == file.exists /\ ~Parse(file.text).errs /\ FileData[<< >>] = OBJ
EventStep(s) == s.op \in {"eventLoad", "eventIgnored"}
StoreFields == <<config, proxied, configCache, reAssigning, lastSaveTime, tasks, file, old>>

\* C1: once init() has completed, a value v assigned at path p through the
\* handle of get(), with no later write and no external edit, is in the file
\* at p when the calls it started have completed.
C1_WritePropagation ==
    (initState = "done" /\ lastSet.on /\ Quiescent)
        => /\ FileIsObject
           /\ lastSet.p \in DOMAIN FileData
           /\ Sub(FileData, lastSet.p) = lastSet.v

\* C2: the change/add event of a write made by save() never starts a load():
\* its mtime is at most lastSaveTime when the handler runs.
C2_NoSelfReload ==
    (EventStep(step) /\ step.arg \in {"change", "add"} /\ file.by = "save")
        => file.mtime <= lastSaveTime

\* C3: with the watcher installed, a valid file written by another process
\* and not overwritten since is in the value once nothing is pending.
C3_ExternalEditVisible ==
    (watcher.on /\ Quiescent /\ FileIsObject /\ file.by = "ext")
        => \A k \in TopKeys(FileData) :
               /\ <<k>> \in DOMAIN config
               /\ Sub(config, <<k>>) = Sub(FileData, <<k>>)

\* C4: a change or add event starts load() iff its mtime is greater than
\* lastSaveTime and otherwise changes nothing; an unlink event always starts
\* load().
C4_WatcherRule ==
    [][EventStep(step') =>
          LET kind == step'.arg
              started == tasks' = tasks (+) SetToBag({NewLoad("watch")})
          IN  /\ kind \in {"change", "add"} =>
                    /\ started <=> file.mtime > lastSaveTime
                    /\ file.mtime <= lastSaveTime => UNCHANGED StoreFields
              /\ kind = "unlink" => started]_vars

\* a change event as old as the last save was ignored
C4_Witness ==
    /\ step.op = "eventIgnored"
    /\ step.arg = "change"
    /\ file.mtime = lastSaveTime
    /\ tasks = EmptyBag

\* C5: a load() that finds a syntax error in the file does not reject.
C5_CorruptRecovery ==
    step.op = "loadRejected" => step.arg # "JsoncSyntaxError"

C7_DefaultsOnDisk ==
    (step.op = "loadReturned" /\ step.arg = "file" /\ file.by = "save")
        => \A k \in TopKeys(tmpl) : <<k>> \in DOMAIN FileData

\* C8: when a save() completes, the cache parses to a value that has every
\* path of the in-memory value, with the same content.
C8_CacheMatchesValue ==
    step.op \in {"saveReturned", "loadReturned"}
        => /\ ~Parse(configCache).errs
           /\ \A p \in DOMAIN config :
                  /\ p \in DOMAIN Parse(configCache).data
                  /\ Parse(configCache).data[p] = config[p]

\* C9: #reAssigning is false whenever load() has returned or rejected.
C9_FlagReset ==
    step.op \in {"loadReturned", "loadRejected"} => ~reAssigning

\* C10: a load() that returns has called save() exactly once, and the writes
\* of its merge have started no save.
C10_OneSavePerLoad ==
    /\ step.op = "loadReturned" => step.n = 1
    /\ step.op = "merged" => step.n = 0

\* a load() that merged a file with keys has returned
C10_Witness ==
    /\ step.op = "loadReturned"
    /\ step.arg = "file"
    /\ initState = "done"
    /\ TopKeys(Parse(configCache).data) # {}

\* C11: when an unload() called by the owner has completed, the value is the
\* template as supplied at construction, the cache is its serialization and
\* no watcher is installed.
C11_UnloadRestoresDefault ==
    step.op = "unloadReturned" =>
        /\ config = tmpl
        /\ configCache = Stringify(tmpl)
        /\ ~watcher.on

\* C12: at most one watcher is live, and none when watchFile is false.
C12_WatcherOnce ==
    watcher.live <= (IF watchFile THEN 1 ELSE 0)

\* an init() called by the owner has returned after the constructor's, and
\* one watcher is installed
C12_Witness ==
    /\ step.op = "loadReturned"
    /\ step.who = "again"
    /\ initState = "done"
    /\ watcher.on
    /\ watcher.live = 1

\* C13: when the interception layer accepts a property write, the save()
\* started by every earlier write has completed: none is still suspended.
C13_WritesOneAtATime ==
    step.op = "set" => step.n = 0

\* the template and the file both hold an object at every proper prefix of p
BothObjects(p) ==
    \A i \in 0..(Len(p) - 1) :
        /\ SubSeq(p, 1, i) \in DOMAIN FileData
        /\ FileData[SubSeq(p, 1, i)] = OBJ
        /\ tmpl[SubSeq(p, 1, i)] = OBJ

\* C14: after the merge of load(), a nested key of the template inside an
\* object that the file has too is in the value, and where the file has the
\* key the value has the file's content.
C14_DeepMerge ==
    step.op = "merged" =>
        \A p \in DOMAIN tmpl :
            (Len(p) >= 2 /\ BothObjects(p)) =>
                /\ p \in DOMAIN config
                /\ p \in DOMAIN FileData => config[p] = FileData[p]

\* C15: when a load() that found no file returns (the first load, or one
\* started by an unlink event), the file exists and the text its save wrote
\* parses to the in-memory value.
C15_AbsentFileRecreated ==
    (/\ step.op = "loadReturned"
     /\ step.who \in {"init", "watch"}
     /\ step.arg = "ensureFile"
     /\ file.by = "save")
        => /\ FileIsObject
           /\ FileData = config

C17_RoundTrip ==
    step.op = "merged" =>
        /\ Parse(configCache).data = FileData
        /\ file.text.cm \subseteq configCache.cm

\* C18: once an unload() called by the owner has resolved, no file event
\* starts a load() until init() is called again.
C18_NoReloadAfterUnload ==
    step.op = "eventLoad" => ~life.unloaded

\* C19: the promise of createConfig() is resolved only when init() has
\* completed, and is rejected when init() has failed.
C19_CreateSettles ==
    /\ createConfig = "resolved" => initState = "done"
    /\ initState = "failed" => createConfig = "rejected"

\* the template with every placeholder {i}, i < Len(data), replaced by
\* data[i] in one pass from the left
RECURSIVE Filled(_, _)
Filled(str, data) ==
    IF str = << >> THEN << >>
    ELSE IF \E i \in 0..(Len(data) - 1) :
                Len(str) >= 3 /\ SubSeq(str, 1, 3) = Placeholder(i)
    THEN LET i == CHOOSE i \in 0..(Len(data) - 1) : SubSeq(str, 1, 3) = Placeholder(i)
         IN  data[i + 1] \o Filled(SubSeq(str, 4, Len(str)), data)
    ELSE <<Head(str)>> \o Filled(Tail(str), data)

\* C20: translate returns the key itself for a key the dictionary lacks,
\* without throwing, and for a key it has the stored template with every
\* placeholder {i}, i < subs.length, replaced by subs[i].
C20_Translate ==
    lang.out # NotCalled =>
        IF lang.key \in DOMAIN lang.dict
        THEN lang.out = Str(Filled(lang.dict[lang.key], lang.data))
        ELSE lang.out = Str(<<lang.key>>)

\* the newlines among the first n characters, and the offset at which the
\* line holding offset n starts
NewlinesBefore(str, n) == Cardinality({k \in 1..n : str[k] = "\n"})
LineStart(str, n) ==
    LET nl == {k \in 1..n : str[k] = "\n"}
    IN  IF nl = {} THEN 0 ELSE CHOOSE k \in nl : \A h \in nl : h <= k

\* C26: for an offset inside the text getLineAndColumnNumber returns the
\* 1-based line holding the offset and its 0-based column in that line
\* (column >= 0, and the preceding lines with their newlines plus the column
\* make up the offset); for an offset beyond the end of the text it throws
\* IndexOutOfBoundsError.
C26_Position ==
    pos.out.t # "none" =>
        /\ pos.index < Len(pos.str) =>
              /\ pos.out.t = "position"
              /\ pos.out.line = NewlinesBefore(pos.str, pos.index) + 1
              /\ pos.out.column >= 0
              /\ LineStart(pos.str, pos.index) + pos.out.column = pos.index
        /\ pos.index > Len(pos.str) => pos.out.t = "IndexOutOfBoundsError"

Loaded(r) == {r.langs[k] : k \in 1..Len(r.langs)}
Wanted(r, langCode) == IF langCode # "" THEN langCode ELSE r.active

\* C21: reloadAllLanguages reloads every language loaded when it is called
\* exactly once (so it terminates), and when it returns the same codes are
\* loaded as before.
C21_ReloadAllOnce ==
    i18n.on =>
        /\ \A c \in Codes : i18n.times[c] <= 1
        /\ (i18n.call.op = "reloadAll" /\ i18n.pc = "idle") =>
              /\ Loaded(i18n) = i18n.before
              /\ \A c \in i18n.before : i18n.times[c] = 1

\* C22: I18n.get(code) returns the Language of that code, or of the active
\* language when the code is omitted; when that language is not loaded it
\* throws an Error whose message names the code that was asked for.
C22_GetNamesCode ==
    (i18n.on /\ i18n.call.op = "get") =>
        LET wanted == Wanted(i18n, i18n.call.code)
        IN  IF wanted \in Loaded(i18n)
            THEN i18n.call.out = [t |-> "language", s |-> <<wanted>>]
            ELSE /\ i18n.call.out.t = "throws"
                 /\ \E k \in 1..Len(i18n.call.out.s) : i18n.call.out.s[k] = wanted

\* C23: switchLanguage(code) makes the code active only when that language
\* is loaded; for a code that is not loaded the active code stays, and in
\* both cases nothing is thrown and the loaded languages are unchanged.
C23_SwitchOnlyLoaded ==
    [][(i18n.on /\ i18n'.call.op = "switch" /\ i18n' # i18n) =>
          /\ i18n'.active = IF i18n'.call.code \in Loaded(i18n)
                            THEN i18n'.call.code ELSE i18n.active
          /\ i18n'.langs = i18n.langs
          /\ i18n'.call.out.t = "void"]_vars

C23_Witness ==
    /\ i18n.on /\ i18n.call.op = "switch"
    /\ i18n.call.code \notin Loaded(i18n)
    /\ i18n.active # i18n.call.code
    /\ Loaded(i18n) # {}

\* C24: I18n.translate never throws: it returns the bare key when the
\* language asked for is not loaded and what Language.translate returns for
\* the key and data otherwise.
C24_TranslateNeverThrows ==
    (i18n.on /\ i18n.call.op = "translate") =>
        /\ i18n.call.out.t # "throws"
        /\ Wanted(i18n, i18n.call.code) \notin Loaded(i18n) =>
              i18n.call.out = Str(<<i18n.call.key>>)

\* the sends to player x so far, by number
SendsTo(x) == {i \in 1..Len(form.sent) : form.sent[i].player = x}

\* what a response is to settle the promise with
Expected(kind, resp) ==
    IF resp.cancel THEN [st |-> "rejected", v |-> Val("reason", resp.n)]
    ELSE [st |-> "resolved",
          v |-> IF kind = "simple" THEN Val("index", resp.n)
                ELSE IF kind = "modal" THEN Val("boolean", resp.n)
                ELSE Val("list", 0)]

\* C27: every response of the host settles the promise of the send it
\* answers: a cancellation rejects it with the reason code, any other
\* response resolves it with the result (button index, boolean or component
\* list), for every button index and reason code; none leaves it pending.
C27_ResponsesSettle ==
    form.on =>
        \A i \in 1..Len(form.sent) :
            form.sent[i].got =>
                /\ form.sent[i].st = Expected(form.kind, form.sent[i].resp).st
                /\ form.sent[i].v = Expected(form.kind, form.sent[i].resp).v

\* C28: getResult(player) rejects with UnsentFormError when the form was
\* never sent to that player, and otherwise returns the promise of the most
\* recent send to that player, whatever was sent to other players.
C28_LatestSend ==
    (form.on /\ form.call.op = "getResult" /\ form.call.arg \in Players) =>
        IF SendsTo(form.call.arg) = {}
        THEN form.call.out = Val("UnsentFormError", 0)
        ELSE /\ form.call.out.t = "promise"
             /\ form.call.out.n \in SendsTo(form.call.arg)
             /\ \A i \in SendsTo(form.call.arg) : i <= form.call.out.n

C28_Witness ==
    /\ form.on /\ form.call.op = "getResult" /\ form.call.arg = "p1"
    /\ Len(form.sent) = 2
    /\ form.sent[1].player = "p1" /\ form.sent[2].player = "p1"
    /\ form.resultList["p2"] = 0
    /\ form.call.out = Val("promise", 2)

\* the step is send(x) with x no Player
IllegalSendStep ==
    /\ form.on /\ form' # form
    /\ form'.call.op = "send" /\ form'.call.arg \in NonPlayers

\* the step is getResult(x) with x no Player
StrayGetStep ==
    /\ form.on
    /\ form'.call.op = "getResult" /\ form'.call.arg \in NonPlayers

C30_InterceptionInstalled == initState # "running" => proxied

\* the paths of two values
PathsOf(a, b) == (DOMAIN a) \cup (DOMAIN b)

\* C25: a handle of get() stays live.  A nested write made through it is
\* read back through it; and when load() has merged a file in which another
\* process changed one member, with no write since, the handle reads the
\* file's value of that member and still reads, everywhere else, what it
\* read before the load.
C25_HandleLive ==
    [][/\ (step'.op = "set" /\ nOps' = nOps + 1) =>
             \A q \in DOMAIN lastSet'.v :
                 HandleGet(config', lastSet'.p \o q) = lastSet'.v[q]
       /\ (step'.op = "merged" /\ file.by = "ext" /\ file.mtime > 0 /\ ~lastSet.on) =>
             \A p \in PathsOf(config, config') :
                 IF p # << >> /\ p[1] = EditedKey
                 THEN HandleGet(config', p) = HandleGet(FileData, p)
                 ELSE HandleGet(config', p) = HandleGet(config, p)]_vars

\* the paths that lie neither on nor under p, nor above it
Outside(p, q) == ~IsPrefix(p, q) /\ ~IsPrefix(q, p)
SameOutside(t1, t2, p) ==
    \A q \in (DOMAIN t1) \cup (DOMAIN t2) :
        Outside(p, q) => (q \in DOMAIN t1 /\ q \in DOMAIN t2 /\ t1[q] = t2[q])

\* the step is a property write through get()
WriteStep == step'.op = "set" /\ nOps' = nOps + 1

\* C31: a write of v at path p through the handles of get(), at any depth,
\* puts v at p in the value and edits the text cache at exactly p: the cache
\* parses to v at p afterwards, and neither the value nor the parsed cache
\* changes anywhere off that path.
C31_DeepInterception ==
    [][WriteStep =>
          /\ lastSet'.p \in DOMAIN config'
          /\ Sub(config', lastSet'.p) = lastSet'.v
          /\ SameOutside(config, config', lastSet'.p)
          /\ ~Parse(configCache').errs
          /\ lastSet'.p \in DOMAIN Parse(configCache').data
          /\ Sub(Parse(configCache').data, lastSet'.p) = lastSet'.v
          /\ SameOutside(Parse(configCache).data, Parse(configCache').data,
                         lastSet'.p)]_vars

\* C32: after property writes issued back to back through the interception
\* layer, once every pending save() has completed the file holds the text of
\* the latest cache, whatever the order in which the file writes complete.
C32_LastWriteWins ==
    (initState = "done" /\ proxied /\ lastSet.on /\ tasks = EmptyBag) =>
        /\ file.exists
        /\ file.text = configCache

\* C33: a property write made through the interception layer while a load()
\* is suspended at its file read is not lost: once the load and every save
\* have completed, the value, the cache and the file hold the written value
\* at the written path.
C33_NoLostUpdate ==
    (initState = "done" /\ lastSet.on /\ lastSet.inLoad /\ Quiescent) =>
        /\ lastSet.p \in DOMAIN config
        /\ Sub(config, lastSet.p) = lastSet.v
        /\ ~Parse(configCache).errs
        /\ lastSet.p \in DOMAIN Parse(configCache).data
        /\ Sub(Parse(configCache).data, lastSet.p) = lastSet.v
        /\ FileIsObject
        /\ lastSet.p \in DOMAIN FileData
        /\ Sub(FileData, lastSet.p) = lastSet.v

C35_NoLeakedWatcher ==
    /\ watcher.live = (IF watcher.on THEN 1 ELSE 0)
    /\ life.unloaded => ~watcher.on

\* the part of C35 that holds: the live watchers are exactly the referenced
\* one
C35_OnlyTheReferenced ==
    watcher.live = (IF watcher.on THEN 1 ELSE 0)

\* the template overlaid with the data of the file: the members of the data,
\* and the members of the template that the data does not have
Overlaid(t, d) ==
    LET kept == {p \in DOMAIN t : p = << >> \/ p[1] \notin TopKeys(d)}
    IN  [p \in kept \cup DOMAIN d |-> IF p \in kept THEN t[p] ELSE d[p]]

\* C36: when a load() started by the edit of another process has merged the
\* file, the value is the template overlaid with the new content of the
\* file; a key the edit removed and the template lacks is gone.
C36_ReloadReflectsRemovals ==
    (step.op = "merged" /\ initState = "done" /\ file.by = "ext" /\ FileIsObject)
        => config = Overlaid(tmpl, FileData)

\* C37: a load() that finds a syntax error in the file of a store loaded
\* before leaves the value and the cache as they were, and when that load()
\* is over the file exists at the path again and holds that cache.
C37_ParseFailureKeepsStore ==
    [][proxied =>
          /\ (step'.arg = "JsoncSyntaxError" /\ step'.op \in {"caught", "loadRejected"})
                 => (config' = config /\ configCache' = configCache)
          /\ (\/ step'.op = "loadRejected" /\ step'.arg = "JsoncSyntaxError"
              \/ step'.op = "loadReturned" /\ step'.arg = "rename")
                 => (file'.exists /\ file'.text = configCache')]_vars

\* the part of C37 that holds: the failed load() changes neither the value
\* nor the cache
C37_StoreKept ==
    [][(proxied /\ step'.arg = "JsoncSyntaxError"
               /\ step'.op \in {"caught", "loadRejected"})
          => (config' = config /\ configCache' = configCache)]_vars

\* C38: a read of a property through the handle of get() or a nested handle
\* never throws and gives the value stored at the path, whether that is a
\* scalar, null, a nested object or an array.
C38_ReadsNeverFail ==
    [][step'.op = "get" =>
          /\ ~got'.threw
          /\ got'.p \in DOMAIN config => got'.val = Sub(config, got'.p)]_vars

\* the part of C38 that holds: a read of a member that is not null gives
\* the stored value
C38_NonNullReads ==
    [][(step'.op = "get" /\ got'.p \in DOMAIN config /\ config[got'.p] # NULL) =>
          /\ ~got'.threw
          /\ got'.val = Sub(config, got'.p)]_vars

\* C39: for a key with a non-empty template translate substitutes all
\* placeholders at once: every {i}, i < subs.length, becomes subs[i], text
\* inserted for a placeholder is not substituted again, and the rest of the
\* template, {j} with j >= subs.length included, is unchanged.
C39_SimultaneousSubstitution ==
    (/\ lang.out # NotCalled
     /\ lang.key \in DOMAIN lang.dict
     /\ lang.dict[lang.key] # << >>)
        => lang.out = Str(Filled(lang.dict[lang.key], lang.data))

\* C40: the key under which a control is appended to the host form when it
\* is added is the key its value is read with, so that entry i of the
\* result list carries what the player entered in the i-th component.
C40_ResultsLineUp ==
    customForm.sent =>
        \A i \in 1..Len(customForm.components) :
            customForm.components[i] # "label" =>
                /\ customForm.keys[i] =
                       getComponentKey(customForm.components[i], i - 1,
                                       Len(customForm.components))
                /\ customForm.out[i] = customForm.entered[i]

====
